---- MODULE Spec2Model ----
(***************************************************************************)
(* Model of library.py: the LZMAIterReader line reader and the Library     *)
(* class (sync worker "download", rotation-table operations, update(),     *)
(* set_order_by, search).                                                  *)
(*                                                                         *)
(* Bytes of the decompressed CSV are strings: "CR" and "LF" are the two    *)
(* terminator bytes, every other string is one payload byte (in the feeds  *)
(* of the sync model one payload byte stands for one CSV field).           *)
(* A compressed byte is a pair <<kind, byte>>:                             *)
(*   <<"magic","">>  stream header, produces no output                     *)
(*   <<"lit", b>>    produces the byte b                                   *)
(*   <<"blk","">>    container framing (block header/check), no output     *)
(*   <<"eos","">>    end-of-stream marker, no output                       *)
(*   <<"bad","">>    corrupt data                                          *)
(*                                                                         *)
(* Specifications: SpecReader (the reader alone, every cut of every short  *)
(* stream), SpecLoad (one sync run, small feeds and one of BigRows rows),  *)
(* SpecSync (up to MaxRuns overlapping sync runs), SpecRot (one sync run   *)
(* and the callers of the rotation table), SpecOrder (any calls of         *)
(* set_order_by), SpecSearch (any calls of search on a three-part table).  *)
(***************************************************************************)
EXTENDS Integers, Sequences, FiniteSets, TLC

\* ------------------------------------------------------------------ bounds
MaxText == 4
MaxRuns == 2
MaxRot == 3
MaxSmallRows == 3
BigRows == 2500
Stride == 1501
LateRows == 1002

\* ------------------------------------------------- program constants
BatchSize == 1000
SizeMin == 1000
Limit == 1000

\* ------------------------------------------------------------- sequences
Drop(s, n) == SubSeq(s, n + 1, Len(s))

RECURSIVE Flatten(_)
Flatten(ss) ==
    IF ss = <<>> THEN <<>> ELSE Head(ss) \o Flatten(Tail(ss))

\* All sequences over S of length 0..n
SeqsUpTo(S, n) == UNION {[1..k -> S] : k \in 0..n}

\* --------------------------------------------------------- the byte stream
CR == "CR"
LF == "LF"

Magic == <<"magic", "">>
Blk == <<"blk", "">>
Eos == <<"eos", "">>
Bad == <<"bad", "">>
Lit(b) == <<"lit", b>>

\* The encoder side (lzma.LZMAFile of gencsv): header, one literal per byte
\* with a framing byte after the first `blkAt` bytes (blkAt < 0: none), end
\* marker.
Compress(text, blkAt) ==
    LET body == [i \in 1..Len(text) |-> Lit(text[i])]
    IN  <<Magic>>
        \o (IF blkAt \in 0..Len(text)
            THEN SubSeq(body, 1, blkAt) \o <<Blk>> \o Drop(body, blkAt)
            ELSE body)
        \o <<Eos>>

\* The stream cut into chunks at the positions of `cuts` (a subset of
\* 1..Len(stream)-1): what the response's iter_content hands out.
CutAt(stream, cuts) ==
    LET B == (cuts \cap (1..(Len(stream) - 1))) \cup {0, Len(stream)}
        Nth(k) == CHOOSE x \in B : Cardinality({y \in B : y < x}) = k
    IN  [k \in 1..(Cardinality(B) - 1) |->
            SubSeq(stream, Nth(k - 1) + 1, Nth(k))]

\* ------------------------------------------------ lzma.LZMADecompressor
\* d is the decompressor object's state [started, eof]; the result is the new
\* state, the output bytes and the exception raised ("none" when none).
FirstEos(data) ==
    IF \E i \in 1..Len(data) : data[i] = Eos
    THEN CHOOSE i \in 1..Len(data) :
            data[i] = Eos /\ \A j \in 1..(i - 1) : data[j] # Eos
    ELSE 0

Decompress(d, data) ==
    IF d.eof THEN [d |-> d, out |-> <<>>, exc |-> "EOFError"]
    ELSE IF data = <<>> THEN [d |-> d, out |-> <<>>, exc |-> "none"]
    ELSE IF ~d.started /\ Head(data) # Magic
    THEN [d |-> d, out |-> <<>>, exc |-> "LZMAError"]
    ELSE
      LET body == IF d.started THEN data ELSE Tail(data)
          e == FirstEos(body)
          used == IF e = 0 THEN body ELSE SubSeq(body, 1, e - 1)
          lits == SelectSeq(used, LAMBDA c : c[1] = "lit")
      IN  IF \E i \in 1..Len(used) : used[i][1] \notin {"lit", "blk"}
          THEN [d |-> d, out |-> <<>>, exc |-> "LZMAError"]
          ELSE [d |-> [started |-> TRUE, eof |-> e # 0],
                out |-> [i \in 1..Len(lits) |-> lits[i][2]],
                exc |-> "none"]

\* Decompressing the whole stream in one call.
DecompressAll(stream) ==
    Decompress([started |-> FALSE, eof |-> FALSE], stream).out

\* ------------------------------------------------------- LZMAIterReader
\* The reader object: iter is what the chunk iterator has still to hand out,
\* tell counts the compressed bytes handed out so far (r.raw.tell()).
NewReader(chunks) ==
    [iter |-> chunks, chunk |-> <<>>, linebuf |-> <<>>,
     lzmad |-> [started |-> FALSE, eof |-> FALSE], tell |-> 0]

\* LZMAIterReader.read, lines 35-41: the whole of self.chunk is handed out.
TakeChunk(r) ==
    [r |-> [r EXCEPT !.chunk = Drop(@, Len(r.chunk))],
     data |-> SubSeq(r.chunk, 1, Len(r.chunk)),
     exc |-> "none"]

\* LZMAIterReader.read, lines 32-33, given what decompress answers for the
\* next chunk of the iterator.
PullChunk(r, dec) ==
    IF dec.exc # "none"
    THEN [r |-> [r EXCEPT !.iter = Tail(@), !.tell = @ + Len(Head(r.iter))],
          data |-> <<>>, exc |-> dec.exc]
    ELSE TakeChunk([r EXCEPT !.iter = Tail(@),
                             !.tell = @ + Len(Head(r.iter)),
                             !.lzmad = dec.d,
                             !.chunk = dec.out])

\* LZMAIterReader.read
ReaderRead(r) ==
    IF Len(r.chunk) # 0 THEN TakeChunk(r)
    ELSE IF r.iter = <<>>
    THEN [r |-> r, data |-> <<>>, exc |-> "StopIteration"]
    ELSE PullChunk(r, Decompress(r.lzmad, Head(r.iter)))

\* linebuf.find(b'\r\n'): the 1-based position of the first terminator, 0 when
\* there is none.
FindCRLF(buf) ==
    IF \E i \in 1..(Len(buf) - 1) : buf[i] = CR /\ buf[i + 1] = LF
    THEN CHOOSE i \in 1..(Len(buf) - 1) :
            /\ buf[i] = CR /\ buf[i + 1] = LF
            /\ \A j \in 1..(i - 1) : ~(buf[j] = CR /\ buf[j + 1] = LF)
    ELSE 0

\* LZMAIterReader.readline, lines 60-64: the line up to and with the
\* terminator found at idx.
CutLine(r, idx) ==
    [r |-> [r EXCEPT !.linebuf = Drop(@, idx + 1)],
     line |-> SubSeq(r.linebuf, 1, idx + 1),
     exc |-> "none"]

\* LZMAIterReader.readline: the new reader, the line returned and the
\* exception that left the call ("none" when a line is returned).
RECURSIVE ReaderReadline(_)
AfterReadYieldsTail(rd) ==
    IF (rd.exc = "StopIteration" \/ (rd.exc = "none" /\ Len(rd.data) = 0))
       /\ rd.r.linebuf # <<>>
    THEN [r |-> [rd.r EXCEPT !.linebuf = <<>>], line |-> rd.r.linebuf,
          exc |-> "none"]
    ELSE IF rd.exc # "none"
    THEN [r |-> rd.r, line |-> <<>>, exc |-> rd.exc]
    ELSE IF Len(rd.data) = 0
    THEN [r |-> rd.r, line |-> <<>>, exc |-> "StopIteration"]
    ELSE ReaderReadline([rd.r EXCEPT !.linebuf = @ \o rd.data])

\* lines 55-58, given what read answered
AfterRead(rd) ==
    IF rd.exc # "none"
    THEN [r |-> rd.r, line |-> <<>>, exc |-> rd.exc]
    ELSE IF Len(rd.data) = 0
    THEN [r |-> rd.r, line |-> <<>>, exc |-> "StopIteration"]
    ELSE ReaderReadline([rd.r EXCEPT !.linebuf = @ \o rd.data])

\* lines 51-53, given the position find answered
AfterFind(r, idx) ==
    IF idx # 0 THEN CutLine(r, idx) ELSE AfterRead(ReaderRead(r))

ReaderReadline(r) == AfterFind(r, FindCRLF(r.linebuf))

\* ------------------------------------------------------------- the feed
\* The CSV the export side writes (gencsv: csv.writer, one row per part): a
\* header line and one line per part, each ended by CR LF.  A field is one
\* payload byte.
Header == <<"LCSC Part", "Stock">>

PartId(k) == "C" \o ToString(k)

PartRow(k) == <<PartId(k), IF k % 2 = 0 THEN "0" ELSE "5">>

Rows(n) == [k \in 1..n |-> PartRow(k)]

CsvLine(fields) == fields \o <<CR, LF>>

CsvText(n) ==
    [i \in 1..(4 * (n + 1)) |->
        LET k == (i - 1) \div 4
            j == ((i - 1) % 4) + 1
        IN  CsvLine(IF k = 0 THEN Header ELSE PartRow(k))[j]]

\* csv.reader on one decoded line: the fields before the terminator.
ParseRow(line) == SubSeq(line, 1, Len(line) - 2)

\* What requests.get answers: the status, the Content-Length header (hasLen,
\* size) and the body as the chunks iter_content hands out.  nrows and valid
\* describe the body: valid means a complete stream of a header line and
\* nrows terminated rows.
Response(status, hasLen, chunks, nrows, valid) ==
    [status |-> status, hasLen |-> hasLen, size |-> Len(Flatten(chunks)),
     chunks |-> chunks, nrows |-> nrows, valid |-> valid]

\* The positions k, 2k, 3k, ... inside a stream of length n
Every(k, n) == {i \in 1..(n - 1) : i % k = 0}

\* A feed of n rows in one chunk / in chunks of k compressed bytes
FeedWhole(n) ==
    Response(200, TRUE, <<Compress(CsvText(n), -1)>>, n, TRUE)

FeedEvery(n, k) ==
    LET s == Compress(CsvText(n), -1)
    IN  [status |-> 200, hasLen |-> TRUE, size |-> Len(s),
         chunks |-> CutAt(s, Every(k, Len(s))), nrows |-> n, valid |-> TRUE]

\* A feed of n >= 1 rows with a framing byte after the first row, delivered
\* as a chunk of its own: that chunk decompresses to nothing.
FeedFramed(n) ==
    LET s == Compress(CsvText(n), 8)
    IN  Response(200, TRUE, CutAt(s, {9, 10}), n, TRUE)

\* A feed whose first chunk is the stream header alone.
FeedHeaderFirst(n) ==
    LET s == Compress(CsvText(n), -1)
    IN  Response(200, TRUE, CutAt(s, {1}), n, TRUE)

\* A feed whose stream is corrupt after the first row.
FeedCorrupt(n) ==
    LET s == Compress(CsvText(n), -1)
    IN  Response(200, TRUE,
                 <<SubSeq(s, 1, 9)>> \o <<<<Bad>> \o Drop(s, 9)>>, n, FALSE)

\* A feed whose last row has no terminator.
FeedTail(n) ==
    LET t == CsvText(n)
    IN  Response(200, TRUE,
                 <<Compress(t \o <<PartId(n + 1)>>, -1)>>, n, FALSE)

\* A feed of n rows whose stream turns corrupt after k of them.
FeedCorruptAt(n, k) ==
    LET s == Compress(CsvText(n), -1)
        cut == 1 + 4 * (k + 1)
    IN  Response(200, TRUE,
                 <<SubSeq(s, 1, cut)>> \o <<<<Bad>> \o Drop(s, cut)>>,
                 n, FALSE)

\* A response with an empty body.
FeedEmptyBody == Response(200, TRUE, <<>>, 0, FALSE)

\* A feed corrupt from its first byte.
FeedCorruptFirst ==
    Response(200, TRUE, <<<<Bad>> \o Tail(Compress(CsvText(1), -1))>>, 1,
             FALSE)

\* A feed that is a header line without its terminator.
FeedNoTerminator == Response(200, TRUE, <<Compress(Header, -1)>>, 0, FALSE)

FeedStatus(code) == Response(code, TRUE, <<>>, 0, FALSE)

FeedNoLength == Response(200, FALSE, <<Compress(CsvText(1), -1)>>, 1, TRUE)

SmallRows == 0..MaxSmallRows

FeedsOf(m) ==
    IF m = "load"
    THEN {FeedWhole(n) : n \in SmallRows}
         \cup {FeedEvery(n, 3) : n \in SmallRows}
         \cup {FeedFramed(n) : n \in SmallRows \ {0}}
         \cup {FeedHeaderFirst(0), FeedCorrupt(2), FeedTail(1)}
         \cup {FeedStatus(404), FeedNoLength}
         \cup {FeedEmptyBody, FeedCorruptFirst, FeedNoTerminator}
         \cup {FeedEvery(BigRows, Stride)}
         \cup {FeedCorruptAt(LateRows, LateRows - 1)}
    ELSE IF m = "sync"
    THEN {FeedWhole(1), FeedWhole(2), FeedStatus(404)}
    ELSE {FeedWhole(1), FeedHeaderFirst(1), FeedCorrupt(2), FeedNoLength}

\* ------------------------------------------------------------ the store
\* The sqlite file: file (it exists), the parts table (partsExists, cols,
\* parts: the committed rows in rowid order), the rotation table (rotExists,
\* rotation), and the one write transaction that can be open: wlock is the
\* run holding it (0: none) and pending the rows it has inserted and not yet
\* committed.
OldRow == <<"C900", "7">>

NoStore ==
    [file |-> FALSE, partsExists |-> FALSE, cols |-> <<>>, parts |-> <<>>,
     rotExists |-> FALSE, rotation |-> <<>>, wlock |-> 0, pending |-> <<>>]

DeletePartsTableKeepsRows(d) == [d EXCEPT !.file = TRUE]

\* Library.delete_parts_table: DROP TABLE IF EXISTS parts
DeletePartsTable(d) ==
    [d EXCEPT !.file = TRUE, !.partsExists = FALSE, !.cols = <<>>,
              !.parts = <<>>]

\* Library.create_parts_table: CREATE TABLE IF NOT EXISTS parts (cols)
CreatePartsTable(d, columns) ==
    IF d.partsExists THEN [d EXCEPT !.file = TRUE]
    ELSE [d EXCEPT !.file = TRUE, !.partsExists = TRUE, !.cols = columns,
                   !.parts = <<>>]

CreateRotationTableAnew(d) ==
    [d EXCEPT !.file = TRUE, !.rotExists = TRUE, !.rotation = <<>>]

\* Library.create_rotation_table: CREATE TABLE IF NOT EXISTS rotation
CreateRotationTable(d) ==
    IF d.rotExists THEN [d EXCEPT !.file = TRUE]
    ELSE [d EXCEPT !.file = TRUE, !.rotExists = TRUE, !.rotation = <<>>]

ExecuteManyAutocommit(d, t, rows) == [d EXCEPT !.parts = @ \o rows]

\* con.executemany(INSERT INTO parts ...) by run t: the rows join t's open
\* transaction.
ExecuteMany(d, t, rows) ==
    [d EXCEPT !.wlock = t, !.pending = @ \o rows]

\* con.commit() by run t
Commit(d, t) ==
    IF d.wlock = t
    THEN [d EXCEPT !.parts = @ \o d.pending, !.pending = <<>>, !.wlock = 0]
    ELSE d

\* The connection of run t is closed with its transaction open: rollback.
Rollback(d, t) ==
    IF d.wlock = t THEN [d EXCEPT !.pending = <<>>, !.wlock = 0] ELSE d

GetStockNonZero(d, lcsc) ==
    LET hits == SelectSeq(d.parts, LAMBDA row : row[1] = lcsc)
    IN  IF hits = <<>> \/ hits[1][2] = "0" THEN <<>> ELSE <<hits[1][2]>>

\* Library.get_stock: the Stock of the first row with that catalog id, as
\* fetchone gives it: <<value>>, or <<>> for None.
GetStock(d, lcsc) ==
    LET hits == SelectSeq(d.parts, LAMBDA row : row[1] = lcsc)
    IN  IF hits = <<>> THEN <<>> ELSE <<hits[1][2]>>

\* Library.insert_correction_data
InsertCorrectionData(d, regex, rotation) ==
    [d EXCEPT !.rotation = Append(@, <<regex, rotation>>)]

\* Library.update_correction_data
UpdateCorrectionData(d, regex, rotation) ==
    [d EXCEPT !.rotation =
        [i \in 1..Len(@) |->
            IF @[i][1] = regex THEN <<regex, rotation>> ELSE @[i]]]

\* Library.delete_correction_data
DeleteCorrectionData(d, regex) ==
    [d EXCEPT !.rotation = SelectSeq(@, LAMBDA row : row[1] # regex)]

\* ------------------------------------------------------------ the events
ResetGaugeEvent == [kind |-> "reset", style |-> "", num |-> 0, den |-> 1]

\* UpdateGaugeEvent(value = num / den)
UpdateGaugeEvent(num, den) ==
    [kind |-> "gauge", style |-> "", num |-> num, den |-> den]

MessageEvent(style) ==
    [kind |-> "message", style |-> style, num |-> 0, den |-> 1]

\* ---------------------------------------------------------------- state
VARIABLES
    reader,     \* the LZMAIterReader under test
    source,     \* the compressed stream the reader's chunks were cut from
    yielded,    \* the lines the reader has returned, in order
    rstat,      \* "run", or the exception that ended the iteration
    mode,       \* which feeds the remote serves: "load", "sync" or "rot"
    pc,         \* per sync run: where its worker thread (download) stands
    loc,        \* per sync run: the locals of download
    db,         \* the sqlite file parts.db
    store,      \* the footprint store of the parent: <<ref, .., lcsc, stock>>
    events,     \* per sync run: the events it has posted, in order
    execlog,    \* per sync run: the sizes of its executemany batches
    overlapped, \* update() was called while a run was active
    stocklog,   \* per sync run: its set_stock calls <<ref, stock>>, in order
    order_by,   \* Library.order_by
    order_dir,  \* Library.order_dir
    ordercall,  \* the last set_order_by call: its n and the order before it
    lastsearch  \* the last search call: its parameters and its outcome

rvars == <<reader, source, yielded, rstat>>

lvars == <<mode, pc, loc, db, store, events, execlog, overlapped, stocklog>>

svars == <<order_by, order_dir, ordercall, lastsearch>>

vars == <<reader, source, yielded, rstat,
          mode, pc, loc, db, store, events, execlog, overlapped, stocklog,
          order_by, order_dir, ordercall, lastsearch>>

Runs == 1..MaxRuns

\* ------------------------------------------------- the reader on its own
Bytes == {CR, LF, "a"}

Texts == SeqsUpTo(Bytes, MaxText)

IdleReader ==
    /\ reader = NewReader(<<>>)
    /\ source = <<>>
    /\ yielded = <<>>
    /\ rstat = "off"

NoLocals ==
    [status |-> 0, hasLen |-> FALSE, size |-> 0, nrows |-> 0, valid |-> FALSE,
     rd |-> NewReader(<<>>), headers |-> <<>>, buffer |-> <<>>, count |-> 0,
     footprints |-> <<>>, n |-> 0]

\* No set_order_by call and no search call made yet
NoCall == [n |-> 0, by |-> "", dir |-> ""]

NoSearch ==
    [called |-> FALSE, p |-> <<>>, ret |-> "", rows |-> <<>>,
     executed |-> FALSE, posted |-> <<>>]

\* Library.__init__: the sort order a new Library starts with.
NewOrder ==
    /\ order_by = "LCSC Part"
    /\ order_dir = "ASC"
    /\ ordercall = NoCall
    /\ lastsearch = NoSearch

IdleLibrary ==
    /\ mode = "off"
    /\ pc = [t \in Runs |-> "idle"]
    /\ loc = [t \in Runs |-> NoLocals]
    /\ db = NoStore
    /\ store = <<>>
    /\ events = [t \in Runs |-> <<>>]
    /\ execlog = [t \in Runs |-> <<>>]
    /\ overlapped = FALSE
    /\ stocklog = [t \in Runs |-> <<>>]
    /\ NewOrder

InitReader ==
    /\ \E text \in Texts, blkAt \in -1..MaxText :
         /\ blkAt <= Len(text)
         /\ source = Compress(text, blkAt)
    /\ \E cuts \in SUBSET (1..(Len(source) - 1)) :
         reader = NewReader(CutAt(source, cuts))
    /\ yielded = <<>>
    /\ rstat = "run"
    /\ IdleLibrary

\* One next() of the consumer: LZMAIterReader.__next__
ReaderNext ==
    /\ rstat = "run"
    /\ \E res \in {ReaderReadline(reader)} :
           /\ reader' = res.r
           /\ IF res.exc = "none"
              THEN yielded' = Append(yielded, res.line) /\ rstat' = rstat
              ELSE yielded' = yielded /\ rstat' = res.exc
    /\ UNCHANGED <<source, lvars, svars>>

SpecReader == InitReader /\ [][ReaderNext]_vars

\* --------------------------------------------------------------- Library
ActiveRuns == {t \in Runs : pc[t] \notin {"idle", "done", "dead"}}

\* The runs a mode allows: overlapping runs are studied in "sync" only.
RunsOf(m) == IF m = "sync" THEN Runs ELSE {1}

SetupRunsTwice(fileExists) == IF fileExists THEN {} ELSE {1, 2}

\* Library.setup, called by __init__: the runs started at construction.
SetupRuns(fileExists) == IF fileExists THEN {} ELSE {1}

Footprints ==
    << <<"R1", "", "", "C1", "">>,
       <<"R2", "", "", "", "">>,
       <<"R3", "", "", "C2", "">> >>

OldRotation == {<<>>, << <<"^R", "90">> >>}

\* The state after Library(parent): the file is missing (setup starts a run)
\* or holds the tables of an earlier sync.
InitLibrary(m) ==
    /\ mode = m
    /\ \E file \in BOOLEAN :
         /\ pc = [t \in Runs |-> IF t \in SetupRuns(file) THEN "start" ELSE "idle"]
         /\ IF file
            THEN \E old \in {<<>>, <<OldRow>>}, rot \in OldRotation :
                    db = [NoStore EXCEPT !.file = TRUE, !.partsExists = TRUE,
                                         !.cols = Header, !.parts = old,
                                         !.rotExists = TRUE, !.rotation = rot]
            ELSE db = NoStore
    /\ loc = [t \in Runs |-> NoLocals]
    /\ store = Footprints
    /\ events = [t \in Runs |-> <<>>]
    /\ execlog = [t \in Runs |-> <<>>]
    /\ overlapped = FALSE
    /\ stocklog = [t \in Runs |-> <<>>]
    /\ NewOrder
    /\ IdleReader

Post(t, evs) == events' = [events EXCEPT ![t] = @ \o evs]

\* Library.update: a new worker thread, whatever the others are doing.
Update(t) ==
    /\ t \in RunsOf(mode)
    /\ pc[t] = "idle"
    /\ \A u \in 1..(t - 1) : pc[u] # "idle"
    /\ pc' = [pc EXCEPT ![t] = "start"]
    /\ overlapped' = (overlapped \/ ActiveRuns # {})
    /\ UNCHANGED <<mode, loc, db, store, stocklog,
                   events, execlog, rvars, svars>>

RefusedStatusOnly(f) == f.status # 200

\* download refuses the response: a non-success status or no Content-Length.
Refused(f) == f.status # 200 \/ ~f.hasLen

StartAbortsWhenSmall(t) ==
    /\ pc[t] = "start"
    /\ \E f \in FeedsOf(mode) :
         IF Refused(f) \/ f.size < SizeMin
         THEN /\ Post(t, <<ResetGaugeEvent, MessageEvent("error")>>)
              /\ pc' = [pc EXCEPT ![t] = "done"]
              /\ loc' = [loc EXCEPT ![t] =
                    [NoLocals EXCEPT !.status = f.status, !.hasLen = f.hasLen,
                                     !.size = f.size]]
         ELSE /\ Post(t, <<ResetGaugeEvent>>)
              /\ pc' = [pc EXCEPT ![t] = "header"]
              /\ loc' = [loc EXCEPT ![t] =
                    [NoLocals EXCEPT !.status = f.status, !.hasLen = f.hasLen,
                                     !.size = f.size, !.nrows = f.nrows,
                                     !.valid = f.valid,
                                     !.rd = NewReader(f.chunks)]]
    /\ UNCHANGED <<mode, db, store, stocklog, execlog, overlapped, rvars,
                   svars>>

\* download, from its start to the construction of the csv reader.
Start(t) ==
    /\ pc[t] = "start"
    /\ \E f \in FeedsOf(mode) :
         IF Refused(f)
         THEN /\ Post(t, <<ResetGaugeEvent, MessageEvent("error")>>)
              /\ pc' = [pc EXCEPT ![t] = "done"]
              /\ loc' = [loc EXCEPT ![t] =
                    [NoLocals EXCEPT !.status = f.status, !.hasLen = f.hasLen]]
         ELSE /\ Post(t, <<ResetGaugeEvent>>
                         \o (IF f.size < SizeMin
                             THEN <<MessageEvent("error")>> ELSE <<>>))
              /\ pc' = [pc EXCEPT ![t] = "header"]
              /\ loc' = [loc EXCEPT ![t] =
                    [NoLocals EXCEPT !.status = f.status, !.hasLen = f.hasLen,
                                     !.size = f.size, !.nrows = f.nrows,
                                     !.valid = f.valid,
                                     !.rd = NewReader(f.chunks)]]
    /\ UNCHANGED <<mode, db, store, stocklog,
                   execlog, overlapped, rvars, svars>>

ReadHeaderAfterDrop(t) ==
    /\ pc[t] = "header"
    /\ db' = DeletePartsTable(db)
    /\ \E res \in {ReaderReadline(loc[t].rd)} :
           IF res.exc = "none"
           THEN /\ pc' = [pc EXCEPT ![t] = "drop"]
                /\ loc' = [loc EXCEPT ![t].rd = res.r,
                                      ![t].headers = ParseRow(res.line)]
           ELSE /\ pc' = [pc EXCEPT ![t] = "dead"]
                /\ loc' = [loc EXCEPT ![t].rd = res.r]
    /\ UNCHANGED <<mode, store, stocklog, events, execlog, overlapped, rvars,
                   svars>>

\* headers = next(csv_reader): an exception here leaves download uncaught.
ReadHeader(t) ==
    /\ pc[t] = "header"
    /\ \E res \in {ReaderReadline(loc[t].rd)} :
           IF res.exc = "none"
           THEN /\ pc' = [pc EXCEPT ![t] = "drop"]
                /\ loc' = [loc EXCEPT ![t].rd = res.r,
                                      ![t].headers = ParseRow(res.line)]
           ELSE /\ pc' = [pc EXCEPT ![t] = "dead"]
                /\ loc' = [loc EXCEPT ![t].rd = res.r]
    /\ UNCHANGED <<mode, db, store, stocklog, events,
                   execlog, overlapped, rvars, svars>>

\* A statement of run t that writes can run: no other run's transaction is
\* open.
CanWrite(t) == db.wlock \in {0, t}

\* self.delete_parts_table()
DropParts(t) ==
    /\ pc[t] = "drop"
    /\ CanWrite(t)
    /\ db' = DeletePartsTable(db)
    /\ pc' = [pc EXCEPT ![t] = "create"]
    /\ UNCHANGED <<mode, loc, store, stocklog, events,
                   execlog, overlapped, rvars, svars>>

\* self.create_parts_table(headers)
CreateParts(t) ==
    /\ pc[t] = "create"
    /\ CanWrite(t)
    /\ db' = CreatePartsTable(db, loc[t].headers)
    /\ pc' = [pc EXCEPT ![t] = "rot"]
    /\ UNCHANGED <<mode, loc, store, stocklog, events,
                   execlog, overlapped, rvars, svars>>

\* self.create_rotation_table(); buffer = []; the insert connection opens.
CreateRotation(t) ==
    /\ pc[t] = "rot"
    /\ CanWrite(t)
    /\ db' = CreateRotationTable(db)
    /\ pc' = [pc EXCEPT ![t] = "loop"]
    /\ loc' = [loc EXCEPT ![t].buffer = <<>>, ![t].count = 0]
    /\ UNCHANGED <<mode, store, stocklog, events,
                   execlog, overlapped, rvars, svars>>

\* The batch condition of the loop
BatchDue(count) == count % BatchSize = 0

\* The progress value posted with a batch: r.raw.tell() / size * 100
Progress(l) == UpdateGaugeEvent(l.rd.tell * 100, l.size)

\* One turn of `for count, row in enumerate(csv_reader)`, the end of the
\* loop, or the exception that ends download.
LoadRow(t) ==
    /\ pc[t] = "loop"
    /\ \E res \in {ReaderReadline(loc[t].rd)} :
       \E buf \in {Append(loc[t].buffer, ParseRow(res.line))} :
           IF res.exc = "StopIteration"
           THEN /\ pc' = [pc EXCEPT ![t] = "flush"]
                /\ loc' = [loc EXCEPT ![t].rd = res.r]
                /\ UNCHANGED <<db, events, execlog>>
           ELSE IF res.exc # "none"
           THEN /\ pc' = [pc EXCEPT ![t] = "dead"]
                /\ loc' = [loc EXCEPT ![t].rd = res.r]
                /\ db' = Rollback(db, t)
                /\ UNCHANGED <<events, execlog>>
           ELSE IF ~BatchDue(loc[t].count)
           THEN /\ loc' = [loc EXCEPT ![t].rd = res.r, ![t].buffer = buf,
                                      ![t].count = @ + 1]
                /\ UNCHANGED <<pc, db, events, execlog>>
           ELSE /\ CanWrite(t)
                /\ Post(t, <<Progress([loc[t] EXCEPT !.rd = res.r])>>)
                /\ IF db.partsExists
                   THEN /\ db' = ExecuteMany(db, t, buf)
                        /\ execlog' = [execlog EXCEPT ![t] = Append(@, Len(buf))]
                        /\ loc' = [loc EXCEPT ![t].rd = res.r,
                                              ![t].buffer = <<>>,
                                              ![t].count = @ + 1]
                        /\ UNCHANGED pc
                   ELSE /\ db' = Rollback(db, t)
                        /\ pc' = [pc EXCEPT ![t] = "dead"]
                        /\ loc' = [loc EXCEPT ![t].rd = res.r, ![t].buffer = buf]
                        /\ UNCHANGED execlog
    /\ UNCHANGED <<mode, store, stocklog, overlapped, rvars, svars>>

\* After the loop: the rest of the buffer, con.commit(), the gauge reset and
\* the footprints update_stock will walk.
Finish(t) ==
    /\ pc[t] = "flush"
    /\ LET buf == loc[t].buffer
           bound == SelectSeq(store, LAMBDA fp : fp[4] # "")
       IN  IF buf = <<>>
           THEN /\ db' = Commit(db, t)
                /\ pc' = [pc EXCEPT ![t] = "stock"]
                /\ loc' = [loc EXCEPT ![t].footprints = bound, ![t].n = 0]
                /\ Post(t, <<ResetGaugeEvent>>)
                /\ UNCHANGED execlog
           ELSE /\ CanWrite(t)
                /\ IF db.partsExists
                   THEN /\ db' = Commit(ExecuteMany(db, t, buf), t)
                        /\ execlog' = [execlog EXCEPT ![t] = Append(@, Len(buf))]
                        /\ pc' = [pc EXCEPT ![t] = "stock"]
                        /\ loc' = [loc EXCEPT ![t].footprints = bound,
                                              ![t].n = 0]
                        /\ Post(t, <<ResetGaugeEvent>>)
                   ELSE /\ db' = Rollback(db, t)
                        /\ pc' = [pc EXCEPT ![t] = "dead"]
                        /\ UNCHANGED <<loc, events, execlog>>
    /\ UNCHANGED <<mode, store, stocklog, overlapped, rvars, svars>>

\* parent.store.set_stock(ref, stock)
SetStock(s, ref, stock) ==
    [i \in 1..Len(s) |->
        IF s[i][1] = ref THEN [s[i] EXCEPT ![5] = stock] ELSE s[i]]

\* One turn of the loop of update_stock.
StockStep(t) ==
    /\ pc[t] = "stock"
    /\ loc[t].n < Len(loc[t].footprints)
    /\ LET fp == loc[t].footprints[loc[t].n + 1]
           stock == GetStock(db, fp[4])
       IN  IF ~db.partsExists
           THEN /\ pc' = [pc EXCEPT ![t] = "dead"]
                /\ UNCHANGED <<loc, store, stocklog, events>>
           ELSE /\ loc' = [loc EXCEPT ![t].n = @ + 1]
                /\ UNCHANGED pc
                /\ IF stock # <<>>
                   THEN /\ store' = SetStock(store, fp[1], stock[1])
                        /\ stocklog' = [stocklog EXCEPT ![t] =
                              Append(@, <<fp[1], stock[1]>>)]
                        /\ Post(t, <<UpdateGaugeEvent(loc[t].n * 100,
                                                      Len(loc[t].footprints))>>)
                   ELSE UNCHANGED <<store, stocklog, events>>
    /\ UNCHANGED <<mode, db, execlog, overlapped, rvars, svars>>

\* The end of download: the gauge reset and the success message.
Succeed(t) ==
    /\ pc[t] = "stock"
    /\ loc[t].n = Len(loc[t].footprints)
    /\ pc' = [pc EXCEPT ![t] = "done"]
    /\ Post(t, <<ResetGaugeEvent, MessageEvent("info")>>)
    /\ UNCHANGED <<mode, loc, db, store, stocklog,
                   execlog, overlapped, rvars, svars>>

\* A writing statement of run t finds another run's transaction open for
\* longer than the connection's timeout: sqlite3.OperationalError, uncaught.
LockTimeout(t) ==
    /\ ~CanWrite(t)
    /\ \/ pc[t] \in {"drop", "create", "rot"}
       \/ pc[t] = "flush" /\ loc[t].buffer # <<>>
    /\ pc' = [pc EXCEPT ![t] = "dead"]
    /\ UNCHANGED <<mode, loc, db, store, stocklog,
                   events, execlog, overlapped, rvars, svars>>

\* The same inside the loop: the row is read and the progress posted before
\* executemany fails.
LockTimeoutInLoop(t) ==
    /\ ~CanWrite(t)
    /\ pc[t] = "loop"
    /\ BatchDue(loc[t].count)
    /\ \E res \in {ReaderReadline(loc[t].rd)} :
           /\ res.exc = "none"
           /\ loc' = [loc EXCEPT ![t].rd = res.r,
                                 ![t].buffer = Append(@, ParseRow(res.line))]
           /\ Post(t, <<Progress([loc[t] EXCEPT !.rd = res.r])>>)
    /\ pc' = [pc EXCEPT ![t] = "dead"]
    /\ UNCHANGED <<mode, db, store, stocklog,
                   execlog, overlapped, rvars, svars>>

Download(t) ==
    \/ Start(t)
    \/ ReadHeader(t)
    \/ DropParts(t)
    \/ CreateParts(t)
    \/ CreateRotation(t)
    \/ LoadRow(t)
    \/ Finish(t)
    \/ StockStep(t)
    \/ Succeed(t)

\* ------------------------------------------- the rotation table's callers
Regexes == {"^R", "^C"}

Corrections == {"0", "90"}

\* insert_correction_data(regex, rotation), when the table is there and no
\* run's transaction is open.
InsertCorrection ==
    /\ db.rotExists /\ db.wlock = 0
    /\ Len(db.rotation) < MaxRot
    /\ \E regex \in Regexes, c \in Corrections :
         db' = InsertCorrectionData(db, regex, c)
    /\ UNCHANGED <<mode, pc, loc, store, stocklog,
                   events, execlog, overlapped, rvars, svars>>

UpdateCorrection ==
    /\ db.rotExists /\ db.wlock = 0
    /\ \E regex \in Regexes, c \in Corrections :
         db' = UpdateCorrectionData(db, regex, c)
    /\ UNCHANGED <<mode, pc, loc, store, stocklog,
                   events, execlog, overlapped, rvars, svars>>

DeleteCorrection ==
    /\ db.rotExists /\ db.wlock = 0
    /\ \E regex \in Regexes : db' = DeleteCorrectionData(db, regex)
    /\ UNCHANGED <<mode, pc, loc, store, stocklog,
                   events, execlog, overlapped, rvars, svars>>

\* ------------------------------------------------------- set_order_by
\* The list order_by of set_order_by
OrderColumns ==
    <<"LCSC Part", "MFR.Part", "Package", "Solder Joint", "Library Type",
      "Manufacturer", "Description", "Price", "Stock">>

\* list[n] as Python indexes a list: n from -len to len - 1
ListItem(list, n) == list[IF n < 0 THEN Len(list) + n + 1 ELSE n + 1]

\* The indices that select a column
OrderIndices == (0 - Len(OrderColumns))..(Len(OrderColumns) - 1)

OrderAfterKeepsDir(by, dir, n) ==
    IF by = ListItem(OrderColumns, n)
    THEN [by |-> by, dir |-> IF dir = "ASC" THEN "DESC" ELSE "ASC"]
    ELSE [by |-> ListItem(OrderColumns, n), dir |-> dir]

\* The order set_order_by(n) leaves, given the order it finds.
OrderAfter(by, dir, n) ==
    IF by = ListItem(OrderColumns, n) /\ dir = "ASC"
    THEN [by |-> by, dir |-> "DESC"]
    ELSE [by |-> ListItem(OrderColumns, n), dir |-> "ASC"]

\* Library.set_order_by(n)
SetOrderBy(n) ==
    /\ \E o \in {OrderAfter(order_by, order_dir, n)} :
           order_by' = o.by /\ order_dir' = o.dir
    /\ ordercall' = [n |-> n, by |-> order_by, dir |-> order_dir]
    /\ UNCHANGED <<lvars, rvars, lastsearch>>

\* ------------------------------------------------------------- search
\* A text (a keyword string, a filter value, a field of a part) is a sequence
\* of characters; "Basic" and "Extended" are written as one character each.
Quote == "\""

\* The characters in use, in code order, and the lower case of the upper
\* case letters among them.
Ascii ==
    <<" ", Quote, "%", "0", "1", "2", "3", "4", "5", "A", "Basic", "C",
      "Extended", "F", "K", "R", "Y", "Z", "_", "a", "b", "c", "f", "k", "p",
      "q", "r", "y", "z">>

Code(c) == CHOOSE i \in 1..Len(Ascii) : Ascii[i] = c

Upper == <<"A", "C", "F", "K", "R", "Y", "Z">>

Lower(c) ==
    IF \E i \in 1..Len(Upper) : Upper[i] = c
    THEN <<"a", "c", "f", "k", "r", "y", "z">>[
            CHOOSE i \in 1..Len(Upper) : Upper[i] = c]
    ELSE c

\* shlex.split(keyword) for keywords without backslash, single quote and
\* hash: toks are the finished tokens, cur the token being read (open: there
\* is one), quoted: inside double quotes.  The result is the token list or
\* the ValueError of an unclosed quotation.
RECURSIVE Lex(_, _, _, _, _)
Lex(s, toks, cur, open, quoted) ==
    IF s = <<>>
    THEN IF quoted THEN [exc |-> "ValueError", tokens |-> <<>>]
         ELSE [exc |-> "none",
               tokens |-> IF open THEN Append(toks, cur) ELSE toks]
    ELSE IF quoted
    THEN IF Head(s) = Quote
         THEN Lex(Tail(s), toks, cur, TRUE, FALSE)
         ELSE Lex(Tail(s), toks, Append(cur, Head(s)), TRUE, TRUE)
    ELSE IF Head(s) = " "
    THEN Lex(Tail(s), IF open THEN Append(toks, cur) ELSE toks, <<>>,
             FALSE, FALSE)
    ELSE IF Head(s) = Quote
    THEN Lex(Tail(s), toks, cur, TRUE, TRUE)
    ELSE Lex(Tail(s), toks, Append(cur, Head(s)), TRUE, FALSE)

ShlexSplit(keyword) == Lex(keyword, <<>>, <<>>, FALSE, FALSE)

\* The columns of the parts table, in the order gencsv writes them.
Columns ==
    <<"LCSC Part", "First Category", "Second Category", "MFR.Part",
      "Package", "Solder Joint", "Manufacturer", "Library Type",
      "Description", "Datasheet", "Price", "Stock">>

Col(name) == CHOOSE i \in 1..Len(Columns) : Columns[i] = name

\* The columns search selects / matches keywords against
SearchColumns == OrderColumns

KeywordColumns ==
    {"LCSC Part", "Description", "MFR.Part", "Package", "Manufacturer"}

\* sqlite's  text LIKE pat : % is any run of characters, _ any one
\* character, any other character itself in either case.
RECURSIVE Like(_, _)
Like(pat, text) ==
    IF pat = <<>> THEN text = <<>>
    ELSE IF Head(pat) = "%"
    THEN \E k \in 0..Len(text) : Like(Tail(pat), Drop(text, k))
    ELSE /\ text # <<>>
         /\ Head(pat) = "_" \/ Lower(Head(pat)) = Lower(Head(text))
         /\ Like(Tail(pat), Tail(text))

\* sqlite's  a > b  for two texts: by character code, a prefix first.
RECURSIVE TextGreater(_, _)
TextGreater(a, b) ==
    IF a = <<>> THEN FALSE
    ELSE IF b = <<>> THEN TRUE
    ELSE IF Head(a) # Head(b) THEN Code(Head(a)) > Code(Head(b))
    ELSE TextGreater(Tail(a), Tail(b))

\* The chunks of the WHERE part: "like" is  col LIKE pat  for one of cols,
\* "in" is  "Library Type" IN vals,  "gt" is  "Stock" > pat.
LikeChunk(cols, pat) ==
    [kind |-> "like", cols |-> cols, pat |-> pat, vals |-> {}]

FilterChunk(cols, p) == IF p = <<>> THEN <<>> ELSE <<LikeChunk(cols, p)>>

LibraryTypes(p) ==
    (IF p.basic THEN {<<"Basic">>} ELSE {})
    \cup (IF p.extended THEN {<<"Extended">>} ELSE {})

\* query_chunks, from the parameters and the keyword's tokens
QueryChunks(p, keywords) ==
    [i \in 1..Len(keywords) |->
        LikeChunk(KeywordColumns, <<"%">> \o keywords[i] \o <<"%">>)]
    \o FilterChunk({"Manufacturer"}, p.manufacturer)
    \o FilterChunk({"Package"}, p.package)
    \o FilterChunk({"First Category", "Second Category"}, p.category)
    \o FilterChunk({"MFR.Part"}, p.part_no)
    \o FilterChunk({"Solder Joint"}, p.solder_joints)
    \o (IF LibraryTypes(p) # {}
        THEN <<[kind |-> "in", cols |-> {"Library Type"}, pat |-> <<>>,
                vals |-> LibraryTypes(p)]>>
        ELSE <<>>)
    \o (IF p.stock
        THEN <<[kind |-> "gt", cols |-> {"Stock"}, pat |-> <<"0">>,
                vals |-> {}]>>
        ELSE <<>>)

\* A row of the table passes a chunk
Holds(chunk, row) ==
    IF chunk.kind = "like"
    THEN \E c \in chunk.cols : Like(chunk.pat, row[Col(c)])
    ELSE IF chunk.kind = "in"
    THEN row[Col("Library Type")] \in chunk.vals
    ELSE TextGreater(row[Col("Stock")], chunk.pat)

\* The rows of the table that pass every chunk, in rowid order
Where(d, chunks) ==
    SelectSeq(d.parts,
              LAMBDA row : \A i \in 1..Len(chunks) : Holds(chunks[i], row))

\* SELECT "LCSC Part", "MFR.Part", ... : the nine columns of a row
Select(row) == [i \in 1..Len(SearchColumns) |-> row[Col(SearchColumns[i])]]

\* ORDER BY ... COLLATE naturalsort: the collation is a function of
\* helpers.py, so any order of the rows is taken to be possible.
Orderings(rows) ==
    {[i \in 1..Len(rows) |-> rows[f[i]]] : f \in Permutations(1..Len(rows))}

\* LIMIT n
Take(rows, n) == SubSeq(rows, 1, IF Len(rows) < n THEN Len(rows) ELSE n)

NoClauseNever(chunks) == FALSE

\* `if not query_chunks`
NoClause(chunks) == chunks = <<>>

\* What a search call did: `ret` is "list" (rows returned), "None" (a bare
\* return) or the exception that left it.
SearchOutcome(p, ret, rows, executed, posted) ==
    [called |-> TRUE, p |-> p, ret |-> ret, rows |-> rows,
     executed |-> executed, posted |-> posted]

\* Library.search(parameters)
Search(p) ==
    /\ \E sp \in {ShlexSplit(p.keyword)} :
           IF sp.exc # "none"
           THEN lastsearch' = SearchOutcome(p, "None", <<>>, FALSE,
                                            <<MessageEvent("error")>>)
           ELSE \E chunks \in {QueryChunks(p, sp.tokens)} :
                  IF NoClause(chunks)
                  THEN lastsearch' = SearchOutcome(p, "list", <<>>, FALSE, <<>>)
                  ELSE IF ~db.partsExists
                  THEN lastsearch' = SearchOutcome(p, "OperationalError", <<>>,
                                                   TRUE, <<>>)
                  ELSE \E rows \in Orderings(Where(db, chunks)) :
                         lastsearch' = SearchOutcome(
                             p, "list",
                             Take([i \in 1..Len(rows) |-> Select(rows[i])],
                                  Limit),
                             TRUE, <<>>)
    /\ UNCHANGED <<lvars, rvars, order_by, order_dir, ordercall>>

\* The parts of the searched table
Catalog ==
    << << <<"C", "1">>, <<"R">>, <<"F">>, <<"a", "b">>, <<"p">>, <<"2">>,
          <<"Y">>, <<"Basic">>, <<"a">>, <<>>, <<>>, <<"5">> >>,
       << <<"C", "2">>, <<"K">>, <<"R">>, <<"A">>, <<"q">>, <<"2">>,
          <<"y">>, <<"Extended">>, <<"b", "a">>, <<>>, <<>>, <<"0">> >>,
       << <<"C", "3">>, <<"K">>, <<"F">>, <<"b">>, <<"p">>, <<"4">>,
          <<"Z">>, <<"Extended">>, <<"b">>, <<>>, <<>>, <<"1", "0">> >> >>

\* The keyword strings, filter settings and parameters searched with
Keywords ==
    {<<>>, <<" ">>, <<"a">>, <<"_">>, <<"%">>,
     <<Quote, "a">>, <<Quote, Quote>>,
     <<"a", " ", "b">>, <<Quote, "a", " ", "b", Quote>>,
     <<"b", " ", Quote, "c">>}

NoFilters ==
    [manufacturer |-> <<>>, package |-> <<>>, category |-> <<>>,
     part_no |-> <<>>, solder_joints |-> <<>>]

Filters ==
    {NoFilters,
     [NoFilters EXCEPT !.manufacturer = <<"y">>],
     [NoFilters EXCEPT !.category = <<"R">>],
     [NoFilters EXCEPT !.part_no = <<"a", "%">>],
     [NoFilters EXCEPT !.solder_joints = <<"2">>],
     [NoFilters EXCEPT !.category = <<"K">>, !.package = <<"p">>]}

Parameters ==
    {[keyword |-> k, manufacturer |-> f.manufacturer, package |-> f.package,
      category |-> f.category, part_no |-> f.part_no,
      solder_joints |-> f.solder_joints, basic |-> b, extended |-> e,
      stock |-> st] :
        k \in Keywords, f \in Filters, b \in BOOLEAN, e \in BOOLEAN,
        st \in BOOLEAN}

\* A Library over a file that holds the catalog, no sync run started.
InitSearch ==
    /\ mode = "search"
    /\ pc = [t \in Runs |-> "idle"]
    /\ loc = [t \in Runs |-> NoLocals]
    /\ db = [NoStore EXCEPT !.file = TRUE, !.partsExists = TRUE,
                            !.cols = Columns, !.parts = Catalog,
                            !.rotExists = TRUE]
    /\ store = Footprints
    /\ events = [t \in Runs |-> <<>>]
    /\ execlog = [t \in Runs |-> <<>>]
    /\ overlapped = FALSE
    /\ stocklog = [t \in Runs |-> <<>>]
    /\ NewOrder
    /\ IdleReader

\* ------------------------------------------------------ specifications
\* One sync run over small and large feeds.
NextLoad == \E t \in Runs : Update(t) \/ Download(t)

SpecLoad == InitLibrary("load") /\ [][NextLoad]_vars

\* Sync runs started by any sequence of update() calls.
NextSync ==
    \E t \in Runs :
        Update(t) \/ Download(t) \/ LockTimeout(t) \/ LockTimeoutInLoop(t)

SpecSync == InitLibrary("sync") /\ [][NextSync]_vars

\* One sync run and the callers of the rotation table.
NextRot ==
    \/ \E t \in Runs : Update(t) \/ Download(t)
    \/ InsertCorrection
    \/ UpdateCorrection
    \/ DeleteCorrection

SpecRot == InitLibrary("rot") /\ [][NextRot]_vars

\* Any calls of set_order_by.
NextOrder == \E n \in OrderIndices : SetOrderBy(n)

SpecOrder == InitLibrary("order") /\ [][NextOrder]_vars

\* Any calls of search on the catalog.
NextSearch == \E p \in Parameters : Search(p)

SpecSearch == InitSearch /\ [][NextSearch]_vars

\* The reference: the terminated lines of a byte sequence, in order.
RECURSIVE SplitLines(_)
SplitLines(buf) ==
    LET idx == FindCRLF(buf)
    IN  IF idx = 0 THEN <<>>
        ELSE <<SubSeq(buf, 1, idx + 1)>> \o SplitLines(Drop(buf, idx + 1))

\* C1: for every valid stream and every cut into chunks, the lines yielded
\* when the iteration has ended are the terminated lines of the whole
\* stream decompressed at once.
C1_ChunkingInvisible ==
    rstat # "run" => yielded = SplitLines(DecompressAll(source))

\* s is a prefix of t
IsPrefix(s, t) == Len(s) <= Len(t) /\ SubSeq(t, 1, Len(s)) = s

\* C15: every line the reader has yielded ends with CR LF and holds no other
\* CR LF; the yielded lines, concatenated, are a prefix of the decompressed
\* stream, and of its terminated part: no byte after the last terminator of
\* the stream is ever yielded.
C15_YieldedLinesTerminated ==
    /\ \A i \in 1..Len(yielded) :
          /\ Len(yielded[i]) >= 2
          /\ FindCRLF(yielded[i]) = Len(yielded[i]) - 1
    /\ IsPrefix(Flatten(yielded), DecompressAll(source))
    /\ IsPrefix(Flatten(yielded), Flatten(SplitLines(DecompressAll(source))))

\* The iteration has ended with a line of payload yielded, every chunk
\* consumed, and bytes left after the last terminator.
C15_Witness ==
    /\ rstat = "StopIteration"
    /\ Len(yielded) = 1 /\ Len(yielded[1]) = 3
    /\ Len(reader.iter) = 0 /\ reader.tell = Len(source) /\ reader.linebuf # <<>>
    /\ Len(Flatten(yielded)) < Len(DecompressAll(source))

\* ------------------------------------------------------- the sync run
\* The fetch of run t was refused (non-success status or no Content-Length).
FetchRefused(t) == loc[t].status # 200 \/ ~loc[t].hasLen

\* Run t went through download to its last statement.
Completed(t) == pc[t] = "done" /\ ~FetchRefused(t)

\* Run t has ended: download returned, or an exception left it.
Ended(t) == pc[t] \in {"done", "dead"}

Messages(t) == SelectSeq(events[t], LAMBDA e : e.kind = "message")

Gauges(t) == SelectSeq(events[t], LAMBDA e : e.kind = "gauge")

\* C2: a completed sync run over a feed of a header line and N terminated
\* rows leaves the parts table holding exactly those N rows, once each, in
\* feed order, and nothing of its previous contents.
C2_TableIsTheFeed ==
    \A t \in Runs :
        (Completed(t) /\ loc[t].valid) => db.parts = Rows(loc[t].nrows)

\* The batches of size 1000 a load of n rows is said to make.
ExpectedBatches(n) ==
    [i \in 1..((n + BatchSize - 1) \div BatchSize) |->
        IF i * BatchSize <= n THEN BatchSize ELSE n - (i - 1) * BatchSize]

\* C3: a load of N rows makes ceil(N/1000) batch inserts, each of 1000 rows
\* but possibly the last, which holds the rest.
C3_BatchesOfThousand ==
    \A t \in Runs :
        Completed(t) => execlog[t] = ExpectedBatches(loc[t].count)

\* C4: a run that has ended has posted exactly one terminal notification (a
\* message), and it is the last thing the run posted.
C4_OneTerminalNotification ==
    \A t \in Runs :
        (Ended(t) /\ events[t] # <<>>) =>
            /\ Len(Messages(t)) = 1
            /\ events[t][Len(events[t])].kind = "message"

\* value a <= value b, for gauge events
GaugeLeq(a, b) ==
    IF a.den = b.den THEN a.num <= b.num
    ELSE a.num * b.den <= b.num * a.den

\* C5: while rows are being loaded the progress values posted so far are
\* non-decreasing, and once 100 has been posted no row of the feed is still
\* waiting to be read and inserted.
C5_ProgressMonotoneFullAtEnd ==
    \A t \in Runs :
        (pc[t] = "loop" /\ loc[t].valid) =>
            /\ \A i \in 1..(Len(Gauges(t)) - 1) :
                    GaugeLeq(Gauges(t)[i], Gauges(t)[i + 1])
            /\ (\E i \in 1..Len(Gauges(t)) :
                    Gauges(t)[i].num = 100 * Gauges(t)[i].den)
                => loc[t].count = loc[t].nrows

\* C6: a run whose fetch reports a non-success status or no content length
\* ends in its first step, having posted the gauge reset and one error
\* message, with the store and the footprints as they were and no insert
\* made; any other run goes on to read the header.  A run that has returned
\* does nothing more.
C6_RefusedFetchAborts ==
    [][\A t \in Runs :
        /\ (pc[t] = "start" /\ pc'[t] # "start") =>
              IF FetchRefused(t)'
              THEN /\ pc'[t] = "done"
                   /\ db' = db /\ store' = store /\ execlog' = execlog
                   /\ events'[t] = <<ResetGaugeEvent, MessageEvent("error")>>
              ELSE pc'[t] = "header"
        /\ (pc[t] = "done" /\ FetchRefused(t)) =>
              (pc'[t] = "done" /\ events'[t] = events[t])]_vars

C6_Witness ==
    \E t \in Runs :
        /\ pc[t] = "done" /\ loc[t].status = 200 /\ ~loc[t].hasLen
        /\ db.parts = <<OldRow>>
        /\ db.rotation # <<>>

\* C7 as claimed: at most one sync run is active, whatever calls of update()
\* were made.
C7_AtMostOneRun == Cardinality(ActiveRuns) <= 1

\* C7 as amended: at most one sync run is active as long as update() was
\* never called while a run was active; update() itself checks nothing.
C7_AtMostOneRunIfCallerWaits ==
    ~overlapped => Cardinality(ActiveRuns) <= 1

C7_Witness ==
    /\ ~overlapped
    /\ \E t, u \in Runs : pc[t] = "done" /\ u # t /\ u \in ActiveRuns

UniqueOn(rows, col) ==
    \A i, j \in 1..Len(rows) : rows[i][col] = rows[j][col] => i = j

\* C8 as claimed: after any sync runs, overlapping or not, no two rows of
\* the parts table share a catalog id.
C8_UniqueCatalogIds == UniqueOn(db.parts, 1)

\* C8 as amended: no two rows of the parts table share a catalog id as long
\* as no sync run was started while another was active.
C8_UniqueCatalogIdsIfNoOverlap == ~overlapped => UniqueOn(db.parts, 1)

C8_Witness ==
    /\ ~overlapped
    /\ \E t, u \in Runs : t # u /\ Completed(t) /\ Completed(u)
    /\ Len(db.parts) > 0

\* C9: no step of a sync run changes the rows of the rotation table or
\* removes the table; the run creates it, empty, only when it is missing.
C9_SyncKeepsRotation ==
    [][(\E t \in Runs : pc'[t] # pc[t] \/ loc'[t] # loc[t]) =>
        /\ db'.rotation = db.rotation
        /\ db.rotExists => db'.rotExists]_vars

C9_Witness ==
    \E t \in Runs : Completed(t) /\ Len(db.rotation) >= 2

\* The footprints update_stock walks: those bound to a catalog id.
BoundFootprints == SelectSeq(store, LAMBDA fp : fp[4] # "")

\* The parts table has a row for the catalog id / the stock of its first row
HasRow(id) == \E i \in 1..Len(db.parts) : db.parts[i][1] = id

LoadedStock(id) ==
    LET first == CHOOSE i \in 1..Len(db.parts) :
                    /\ db.parts[i][1] = id
                    /\ \A j \in 1..(i - 1) : db.parts[j][1] # id
    IN  db.parts[first][2]

\* C14 as claimed: a completed run has made exactly one set_stock call for
\* each footprint bound to a catalog id, in store order, with the stock the
\* parts table holds for that id, and none for an unbound footprint.
C14_OneCallPerBoundFootprint ==
    \A t \in Runs :
        Completed(t) =>
            /\ Len(stocklog[t]) = Len(BoundFootprints)
            /\ \A i \in 1..Len(stocklog[t]) :
                  /\ stocklog[t][i][1] = BoundFootprints[i][1]
                  /\ HasRow(BoundFootprints[i][4])
                  /\ stocklog[t][i][2] = LoadedStock(BoundFootprints[i][4])

\* The bound footprints whose catalog id has a row in the parts table.
ListedFootprints == SelectSeq(BoundFootprints, LAMBDA fp : HasRow(fp[4]))

\* C14 as amended: a completed run has made exactly one set_stock call for
\* each footprint bound to a catalog id that has a row in the parts table,
\* with the stock of that row (also when it is 0), and no call for any other
\* footprint: not for an unbound one, not for one whose id is not listed.
C14_OneCallPerListedFootprint ==
    \A t \in Runs :
        Completed(t) =>
            /\ Len(stocklog[t]) = Len(ListedFootprints)
            /\ \A i \in 1..Len(stocklog[t]) :
                  /\ stocklog[t][i][1] = ListedFootprints[i][1]
                  /\ stocklog[t][i][2] = LoadedStock(ListedFootprints[i][4])
            /\ \A i \in 1..Len(store) :
                  store[i][5] # "" =>
                      /\ HasRow(store[i][4])
                      /\ store[i][5] = LoadedStock(store[i][4])

\* A completed run whose table lists both bound ids, one of them with the
\* stock 0: two calls, the second passing 0.
C14_Witness ==
    \E t \in Runs :
        /\ Completed(t)
        /\ stocklog[t] = << <<"R1", "5">>, <<"R3", "0">> >>
        /\ store[2][5] = ""

\* The rows a search would read now: the committed rows of the parts table.
Visible(d) == d.parts

\* The fetch of run t was accepted with a Content-Length under SizeMin.
SmallFeed(t) == ~FetchRefused(t) /\ loc[t].size < SizeMin

\* C16: a run whose fetch is accepted goes on to read the header whatever
\* the content length is, having posted the gauge reset and, when the length
\* is under 1000, one error message, with the store untouched; and a run
\* that completes has replaced the parts table by the rows it read, whether
\* the length was under 1000 or not.
C16_SmallFeedIsLoaded ==
    [][\A t \in Runs :
        /\ (pc[t] = "start" /\ pc'[t] # "start" /\ ~FetchRefused(t)') =>
              /\ pc'[t] = "header"
              /\ db' = db
              /\ events'[t] = <<ResetGaugeEvent>>
                    \o (IF loc'[t].size < 1000
                        THEN <<MessageEvent("error")>> ELSE <<>>)
        /\ (pc[t] = "drop" /\ pc'[t] # "drop") =>
              (pc'[t] = "create" /\ ~db'.partsExists /\ Visible(db') = <<>>)
        /\ (pc[t] # "done" /\ Completed(t)') =>
              Visible(db') = Rows(loc[t].count)]_vars

\* A completed run over a feed shorter than 1000 bytes: the error message,
\* then the load and the success message.
C16_Witness ==
    \E t \in Runs :
        /\ Completed(t) /\ SmallFeed(t)
        /\ Messages(t) = <<MessageEvent("error"), MessageEvent("info")>>
        /\ Visible(db) = Rows(3)

\* Run t ended by an exception after it had dropped the parts table.
FailedAfterDrop(t) == pc[t] = "dead" /\ loc[t].headers # <<>>

\* C18: a run that fails after the drop leaves the parts table there and
\* empty, with no transaction open; and from the drop to the commit, and
\* after a failure, a search reads no row: the rows inserted so far,
\* however many batches, are in the run's open transaction only.
C18_FailedLoadLeavesEmptyTable ==
    \A t \in Runs :
        /\ FailedAfterDrop(t) =>
              /\ db.partsExists /\ db.parts = <<>>
              /\ db.pending = <<>> /\ db.wlock = 0
        /\ (pc[t] \in {"create", "rot", "loop", "flush"}
              \/ FailedAfterDrop(t)) => Visible(db) = <<>>

\* A run that failed after a batch of one row and a full batch of 1000.
C18_Witness ==
    \E t \in Runs :
        /\ FailedAfterDrop(t)
        /\ execlog[t] = <<1, BatchSize>>
        /\ loc[t].buffer = <<>>

\* C19: no step of a run that has not yet read the header row changes the
\* store, and neither does anything after the run failed reading it: the
\* previous parts table and its rows stay as they were.
C19_DropOnlyAfterHeader ==
    [][\A t \in Runs :
        (pc[t] \in {"start", "header"}
           \/ (pc[t] = "dead" /\ loc[t].headers = <<>>)) => db' = db]_vars

\* A run that failed on a first line without terminator, the old row still
\* in the table.
C19_Witness ==
    \E t \in Runs :
        /\ pc[t] = "dead" /\ loc[t].headers = <<>>
        /\ loc[t].rd.linebuf # <<>>
        /\ db.parts = <<OldRow>>

\* ------------------------------------------------------------ the search
\* Read off the keyword text: it holds no token / a quotation left open.
OnlySpaces(kw) == \A i \in 1..Len(kw) : kw[i] = " "

Unbalanced(kw) == Cardinality({i \in 1..Len(kw) : kw[i] = Quote}) % 2 = 1

\* No structured filter, no library type and no stock-only flag is set.
NoFilterSet(p) ==
    /\ p.manufacturer = <<>> /\ p.package = <<>> /\ p.category = <<>>
    /\ p.part_no = <<>> /\ p.solder_joints = <<>>
    /\ ~p.basic /\ ~p.extended /\ ~p.stock

\* C11: a search whose keyword holds no token and that sets no filter, no
\* library type and no stock-only flag returns the empty list and executes
\* no query.
C11_EmptyFilterNoQuery ==
    (lastsearch.called /\ OnlySpaces(lastsearch.p.keyword)
       /\ NoFilterSet(lastsearch.p)) =>
        /\ lastsearch.ret = "list" /\ lastsearch.rows = <<>>
        /\ ~lastsearch.executed

\* A search with a keyword of one space and nothing else set.
C11_Witness ==
    /\ lastsearch.called /\ lastsearch.p.keyword = <<" ">>
    /\ NoFilterSet(lastsearch.p)
    /\ lastsearch.ret = "list"

\* C12: a search whose keyword has an unbalanced quote posts one error
\* message, executes no query, raises nothing and returns an empty result
\* set, whatever the other parameters are.
C12_UnbalancedQuoteEmptyResult ==
    (lastsearch.called /\ Unbalanced(lastsearch.p.keyword)) =>
        /\ lastsearch.posted = <<MessageEvent("error")>>
        /\ ~lastsearch.executed
        /\ lastsearch.ret = "list" /\ lastsearch.rows = <<>>

\* C13: the sort column is always one of the nine of the list and the
\* direction ASC or DESC; after set_order_by(n) the column is the n-th of
\* the list, and the direction is the opposite of what it was when that
\* column was the current one, ASC when it was not.
C13_OrderToggles ==
    /\ \E i \in 1..Len(OrderColumns) : order_by = OrderColumns[i]
    /\ order_dir \in {"ASC", "DESC"}
    /\ ordercall # NoCall =>
          /\ order_by = ListItem(OrderColumns, ordercall.n)
          /\ IF ordercall.by = order_by
             THEN order_dir # ordercall.dir
             ELSE order_dir = "ASC"

\* The current column, sorted DESC, was selected again: back to ASC.
C13_Witness ==
    /\ ordercall.by = "Stock" /\ ordercall.dir = "DESC"
    /\ order_by = "Stock" /\ order_dir = "ASC"

\* tok occurs in text, in either case
Contains(text, tok) ==
    \E i \in 0..(Len(text) - Len(tok)) :
        \A j \in 1..Len(tok) : Lower(text[i + j]) = Lower(tok[j])

\* The number a text of digits writes
RECURSIVE Number(_)
Number(text) ==
    IF text = <<>> THEN 0
    ELSE 10 * Number(SubSeq(text, 1, Len(text) - 1))
         + (Code(text[Len(text)]) - Code("0"))

\* A row of the table satisfies every clause the parameters stand for.
Satisfies(row, p) ==
    /\ \A i \in 1..Len(ShlexSplit(p.keyword).tokens) :
          \E c \in KeywordColumns :
              Contains(row[Col(c)], ShlexSplit(p.keyword).tokens[i])
    /\ p.manufacturer # <<>> => Like(p.manufacturer, row[Col("Manufacturer")])
    /\ p.package # <<>> => Like(p.package, row[Col("Package")])
    /\ p.category # <<>> =>
          \/ Like(p.category, row[Col("First Category")])
          \/ Like(p.category, row[Col("Second Category")])
    /\ p.part_no # <<>> => Like(p.part_no, row[Col("MFR.Part")])
    /\ p.solder_joints # <<>> =>
          Like(p.solder_joints, row[Col("Solder Joint")])
    /\ (p.basic \/ p.extended) =>
          \/ p.basic /\ row[Col("Library Type")] = <<"Basic">>
          \/ p.extended /\ row[Col("Library Type")] = <<"Extended">>
    /\ p.stock => Number(row[Col("Stock")]) > 0

\* C17: a search that executes its query returns at most 1000 rows, each of
\* them the selection of a row of the table that satisfies every clause:
\* every keyword token occurs in one of the five keyword columns, every set
\* filter matches its column (category: one of the two), the library type
\* is one of those selected if any is, the stock is above 0 if stock-only.
C17_RowsSatisfyEveryClause ==
    (lastsearch.called /\ lastsearch.executed /\ lastsearch.ret = "list") =>
        /\ Len(lastsearch.rows) <= Limit
        /\ \A i \in 1..Len(lastsearch.rows) :
              \E k \in 1..Len(db.parts) :
                  /\ Select(db.parts[k]) = lastsearch.rows[i]
                  /\ Satisfies(db.parts[k], lastsearch.p)

\* C10: after any calls of insert_correction_data, update_correction_data
\* and delete_correction_data no two rows of the rotation table have the
\* same regex.
C10_UniqueRegex == UniqueOn(db.rotation, 1)

====
